---- MODULE Spec2Model ----
(***************************************************************************)
(* A model of sz_compress_float3d_opencl (src/sz/src/sz_opencl.cc), the    *)
(* block-wise error-bounded compressor for 3-D float volumes.              *)
(*                                                                         *)
(* Numbers.  Every number is an integer count of "fine units".  A value of *)
(* C type double is any integer; a value of C type float is a multiple of  *)
(* FloatUlp, and an expression stored into a float variable is rounded to  *)
(* the nearest such multiple (ties to even), as the conversion to float    *)
(* rounds.  An expression is evaluated exactly and rounded once, where it  *)
(* is stored.                                                              *)
(*                                                                         *)
(* One call of the function is a sequence of steps: Entry, one FitBlock    *)
(* per block, Tune, one SelectBlock per block, CoeffQuantize, one          *)
(* QuantBlock per block, WriteHead, EncodeTypes.  A second call on the     *)
(* same volume follows the first, so that two calls can be compared.       *)
(***************************************************************************)
EXTENDS Integers, Sequences, FiniteSets, TLC

(***************************************************************************)
(* Bounds of the model.                                                    *)
(***************************************************************************)
FloatUlp == 4
MaxBase == 1
MaxSlope == 1
MaxHandles == 3

(***************************************************************************)
(* Program constants.                                                      *)
(***************************************************************************)
block_size == 6
coeff_intvCapacity_sz == 65536
SizeofSizeT == 8
SizeofInt == 4
SizeofFloat == 4
SizeofDouble == 8
SizeofShort == 2

pred_buffer_block_size == block_size + 1
strip_dim0_offset == pred_buffer_block_size * pred_buffer_block_size
strip_dim1_offset == pred_buffer_block_size
max_num_block_elements == block_size * block_size * block_size
PredBufferLen == pred_buffer_block_size * pred_buffer_block_size * pred_buffer_block_size
coeff_intvRadius == coeff_intvCapacity_sz \div 2

(***************************************************************************)
(* Arithmetic.                                                             *)
(***************************************************************************)
Abs(x) == IF x < 0 THEN -x ELSE x
Min(a, b) == IF a < b THEN a ELSE b
Sgn(x) == IF x < 0 THEN -1 ELSE 1

\* n/d rounded to the nearest integer, ties to even (d > 0)
RoundDiv(n, d) ==
  LET a == Abs(n)
      q == a \div d
      r == a % d
      up == IF 2 * r < d THEN 0 ELSE IF 2 * r > d THEN 1 ELSE q % 2
  IN Sgn(n) * (q + up)

\* n/d stored into a float
ToFloatDiv(n, d) == FloatUlp * RoundDiv(n, d * FloatUlp)
\* x stored into a float
ToFloat(x) == ToFloatDiv(x, 1)

\* the function f with every value computed once (f itself, as an array)
Array(f) == f @@ <<>>

\* f[lo] + ... + f[hi]
RECURSIVE SumRange(_, _, _)
SumRange(f, lo, hi) ==
  IF lo > hi THEN 0
  ELSE IF lo = hi THEN f[lo]
  ELSE LET mid == (lo + hi) \div 2
       IN SumRange(f, lo, mid) + SumRange(f, mid + 1, hi)
SumTo(f, n) == SumRange(f, 0, n)

(***************************************************************************)
(* State.                                                                  *)
(***************************************************************************)
VARIABLES
  \* the caller's arguments and the process-wide configuration
  r1, r2, r3,          \* extents of the volume
  oriData,             \* the volume, flat index 0 .. r1*r2*r3-1
  realPrecision,       \* the error bound
  exe_params,          \* [optQuantMode, intvCapacity, intvRadius, SZ_SIZE_TYPE]
  tuner,               \* what optimize_intervals_..._dense_pos reports for this volume
  outside,             \* what a load past the end of oriData returns in this call
  entry_params,        \* exe_params as the call found it
  \* locals of the call
  pc,                  \* position in the function
  blk,                 \* linear index of the block the current loop is at
  live,                \* heap buffers obtained and not yet freed
  reg_params,          \* 4*num_blocks floats: a | b | c | d
  reg_params_pos,      \* cursor into reg_params
  pred_buffer,         \* 7*7*7 floats
  staged,              \* the 6*6*6 values the last staging copy loaded, where from,
                       \* and the positions the selector then sampled
  quantization_intervals,
  use_mean,
  mean,
  indicator,           \* one flag per block: 1 Lorenzo, 0 regression
  reg_count,
  coeff_type,          \* 4 symbol streams
  coeff_unpred_data,   \* 4 lists of raw coefficients
  result_type,         \* symbols, max_num_block_elements per block
  recon,               \* reconstruction of each element of the blocks quantized so far
  result_unpredictable_data,
  blockwise_unpred_count,
  total_unpred,
  \* the result
  result,              \* the sections written to the output buffer, in order
  result_capacity,     \* the size given to calloc
  comp_size,
  \* the calls made so far
  history,
  \* the accelerator probe: the caller's handle (0 null, -1 never assigned,
  \* otherwise the object it points to), the objects made so far with their
  \* error fields, and the last call with what it returned
  probe

inputs == <<r1, r2, r3, oriData, tuner>>
locals == <<blk, reg_params, reg_params_pos, pred_buffer, staged,
            quantization_intervals, use_mean, mean, indicator, reg_count,
            coeff_type, coeff_unpred_data, result_type, recon,
            result_unpredictable_data, blockwise_unpred_count, total_unpred>>
output == <<result, result_capacity, comp_size>>
core == <<inputs, realPrecision, exe_params, outside, entry_params, pc, live, locals,
          output, history>>
vars == <<core, probe>>

(***************************************************************************)
(* Block geometry (lines 182-194).                                         *)
(***************************************************************************)
NumAlong(r) == (r - 1) \div block_size + 1
num_x == NumAlong(r1)
num_y == NumAlong(r2)
num_z == NumAlong(r3)
num_blocks == num_x * num_y * num_z
num_elements == r1 * r2 * r3
dim0_offset == r2 * r3
dim1_offset == r3

\* block b of the i, j, k loop nest
BlockI(b) == b \div (num_y * num_z)
BlockJ(b) == (b \div num_z) % num_y
BlockK(b) == b % num_z
\* element n of the ii, jj, kk loop nest
LocalI(n) == n \div (block_size * block_size)
LocalJ(n) == (n \div block_size) % block_size
LocalK(n) == n % block_size
Elements == 0 .. (max_num_block_elements - 1)

\* the cell of pred_buffer that holds element n when the buffer is used with
\* its one-cell offset on each axis
Cell(x, y, z) == x * strip_dim0_offset + y * strip_dim1_offset + z
CellOf(n) == Cell(LocalI(n) + 1, LocalJ(n) + 1, LocalK(n) + 1)

(***************************************************************************)
(* Staging copies.  The source pointer of an axis starts at the block's    *)
(* origin and, after each element, moves on only if the guard allows it.   *)
(* slack is the constant the guard adds: "origin + t + 1 < extent" in the  *)
(* regression-fit pass and the mean-mode passes, "origin + t < extent" in  *)
(* the non-mean selection and quantization passes.                         *)
(***************************************************************************)
Advances(origin, t, extent, slack) ==
  Cardinality({s \in 0 .. (t - 1) : origin + s + slack < extent})

\* the three source pointers move independently of one another: the
\* coordinate each is at, along its axis, when local index t is copied
AxisSteps(origin, extent, slack) ==
  Array([t \in 0 .. (block_size - 1) |-> origin + Advances(origin, t, extent, slack)])
\* the flat index of the load of each element, from the three coordinates
FlatIndices(xs, ys, zs) ==
  Array([n \in Elements |->
           xs[LocalI(n)] * dim0_offset + ys[LocalJ(n)] * dim1_offset + zs[LocalK(n)]])
SourceIndices(b, slack) ==
  FlatIndices(AxisSteps(BlockI(b) * block_size, r1, slack),
              AxisSteps(BlockJ(b) * block_size, r2, slack),
              AxisSteps(BlockK(b) * block_size, r3, slack))

\* *block_data_pos_z: a load inside the volume returns the sample, a load
\* past its end returns whatever lies there
Load(idx) == IF idx < num_elements THEN oriData[idx] ELSE outside

FitSlack == 1
MeanSelectSlack == 1
SelectSlack == 0
MeanQuantSlack == 1
QuantSlack == 0

LoadEach(at) == Array([n \in Elements |-> Load(at[n])])
StageBlock(b, slack) == LoadEach(SourceIndices(b, slack))
SomeOutside(at) == {n \in Elements : at[n] >= num_elements} # {}
ReadsOutside(b, slack) == SomeOutside(SourceIndices(b, slack))

\* the copy starting at the first cell of the buffer
StageWithHalo_NoOffset(buf, vals) ==
  Array([c \in DOMAIN buf |-> IF c < max_num_block_elements THEN vals[c] ELSE buf[c]])
\* the buffer after a staging copy with the one-cell offset
StageWithHalo(buf, vals) ==
  Array([c \in DOMAIN buf |->
     LET x == c \div strip_dim0_offset
         y == (c \div strip_dim1_offset) % pred_buffer_block_size
         z == c % pred_buffer_block_size
     IN IF x >= 1 /\ y >= 1 /\ z >= 1
        THEN vals[((x - 1) * block_size + (y - 1)) * block_size + (z - 1)]
        ELSE buf[c]])
\* the buffer after the dense staging copy of the regression-fit pass
StageDense(buf, vals) ==
  Array([c \in DOMAIN buf |-> IF c < max_num_block_elements THEN vals[c] ELSE buf[c]])

(***************************************************************************)
(* Regression fit of one block (lines 241-278).                            *)
(***************************************************************************)
RegressionFit(vals) ==
  LET f  == SumTo(vals, max_num_block_elements - 1)
      fx == SumTo([n \in Elements |-> vals[n] * LocalI(n)], max_num_block_elements - 1)
      fy == SumTo([n \in Elements |-> vals[n] * LocalJ(n)], max_num_block_elements - 1)
      fz == SumTo([n \in Elements |-> vals[n] * LocalK(n)], max_num_block_elements - 1)
      \* (2*fx/(block_size-1) - f) * 6 * coeff / (block_size+1), coeff = 1/216
      den == (block_size - 1) * max_num_block_elements * (block_size + 1)
      a == ToFloatDiv((2 * fx - (block_size - 1) * f) * 6, den)
      b == ToFloatDiv((2 * fy - (block_size - 1) * f) * 6, den)
      c == ToFloatDiv((2 * fz - (block_size - 1) * f) * 6, den)
      \* f*coeff - ((block_size-1)*a/2 + (block_size-1)*b/2 + (block_size-1)*c/2)
      d == ToFloatDiv(2 * f - max_num_block_elements * (block_size - 1) * (a + b + c),
                      2 * max_num_block_elements)
  IN <<a, b, c, d>>

(***************************************************************************)
(* Predictors.                                                             *)
(***************************************************************************)
\* the prediction taking the cell itself for its predecessor on the fastest axis
Lorenzo_OwnCell(buf, c) ==
  buf[c] + buf[c - strip_dim1_offset] + buf[c - strip_dim0_offset]
  - buf[c - strip_dim1_offset - 1] - buf[c - strip_dim0_offset - 1]
  - buf[c - strip_dim0_offset - strip_dim1_offset]
  + buf[c - strip_dim0_offset - strip_dim1_offset - 1]
\* the 7-neighbour prediction at cell c of the buffer
Lorenzo(buf, c) ==
  buf[c - 1] + buf[c - strip_dim1_offset] + buf[c - strip_dim0_offset]
  - buf[c - strip_dim1_offset - 1] - buf[c - strip_dim0_offset - 1]
  - buf[c - strip_dim0_offset - strip_dim1_offset]
  + buf[c - strip_dim0_offset - strip_dim1_offset - 1]

\* the fitted model of the block whose coefficients start at params[pos]
Coeff(params, pos, e) == params[pos + e * num_blocks]
RegressionAt(params, pos, x, y, z) ==
  ToFloat(Coeff(params, pos, 0) * x + Coeff(params, pos, 1) * y
          + Coeff(params, pos, 2) * z + Coeff(params, pos, 3))

\* float noise = realPrecision * 1.22 (line 322)
Noise(prec) == ToFloatDiv(122 * prec, 100)

(***************************************************************************)
(* Predictor selection of one block (lines 365-457 and 495-583).  For each *)
(* i in 2..block_size four cells are sampled; bmi = block_size - i + 1.    *)
(***************************************************************************)
SampleCells(i) ==
  LET bmi == block_size - i + 1
  IN << [cell |-> Cell(i, i, i),     x |-> i - 1, y |-> i - 1, z |-> i - 1],
        [cell |-> Cell(i, i, bmi),   x |-> i - 1, y |-> i - 1, z |-> bmi],
        [cell |-> Cell(i, bmi, i),   x |-> i - 1, y |-> bmi,   z |-> i - 1],
        [cell |-> Cell(i, bmi, bmi), x |-> i - 1, y |-> bmi,   z |-> bmi] >>
SampleRange == 2 .. block_size
\* the samples in the order the loop visits them
Samples ==
  [t \in 1 .. 4 * Cardinality(SampleRange) |->
     SampleCells(2 + (t - 1) \div 4)[((t - 1) % 4) + 1]]

\* lines 391, 412, 432, 452
MeanErrSz(buf, c, noise, m) ==
  Min(Abs(Lorenzo(buf, c) - buf[c]) + noise, Abs(m - buf[c]))
\* lines 520, 540, 559, 578
ErrSz(buf, c, noise) == Abs(Lorenzo(buf, c) - buf[c]) + noise
ErrReg(buf, params, pos, s) ==
  Abs(RegressionAt(params, pos, s.x, s.y, s.z) - buf[s.cell])

SumErr(term) ==
  SumTo([t \in 0 .. (block_size - 2) |->
           term[t + 2][1] + term[t + 2][2] + term[t + 2][3] + term[t + 2][4]],
        block_size - 2)

AccumulatedErrSz(buf, noise, meanMode, m) ==
  SumErr([i \in SampleRange |->
            [s \in 1 .. 4 |->
               IF meanMode THEN MeanErrSz(buf, SampleCells(i)[s].cell, noise, m)
               ELSE ErrSz(buf, SampleCells(i)[s].cell, noise)]])
AccumulatedErrReg(buf, params, pos) ==
  SumErr([i \in SampleRange |->
            [s \in 1 .. 4 |-> ErrReg(buf, params, pos, SampleCells(i)[s])]])

\* a tie going to the regression predictor
Indicator_TieToRegression(err_reg, err_sz) == IF err_reg <= err_sz THEN 0 ELSE 1
\* indicator_pos[k] = !(err_reg < err_sz)
Indicator(err_reg, err_sz) == IF err_reg < err_sz THEN 0 ELSE 1
SelectPredictor(buf, params, pos, noise, meanMode, m) ==
  Indicator(AccumulatedErrReg(buf, params, pos),
            AccumulatedErrSz(buf, noise, meanMode, m))

(***************************************************************************)
(* Error-bounded quantization of one residual.  cap is the capacity the    *)
(* interval number is tested against, radius the offset of the symbol.     *)
(*   itvNum = fabs(diff)/prec + 1;  if (itvNum < cap) { ... }              *)
(* With prec > 0 the test is fabs(diff) < (cap-1)*prec and (int)(itvNum/2) *)
(* is (fabs(diff)+prec) div (2*prec), negated for diff < 0.  With prec = 0 *)
(* itvNum is infinite or NaN and the test fails; with prec < 0 the test    *)
(* may pass but fabs(..) > prec then holds: either way the value escapes.  *)
(***************************************************************************)
\* symbol 0 without the value being kept
Escape_Unlisted(cur) == [type |-> 0, recon |-> cur, unpred |-> FALSE]
\* type = 0, the value itself as reconstruction, the value appended to the
\* unpredictable data
Escape(cur) == [type |-> 0, recon |-> cur, unpred |-> TRUE]
IntervalSymbol(diff, prec, radius) ==
  Sgn(diff) * ((Abs(diff) + prec) \div (2 * prec)) + radius
\* the final test left out
BoundViolated_Unchecked(cur, rec, prec) == FALSE
\* the final test, "against the case of machine-epsilon"
BoundViolated(cur, rec, prec) == Abs(cur - rec) > prec
\* the range as it would be if it narrowed while the precision loosens
InRange_Narrowing(cur, pred, prec, cap) ==
  prec > 0 /\ Abs(cur - pred) < (cap - 1) * (500 - prec)
\* itvNum = fabs(diff) / realPrecision + 1 < capacity: never with a zero
\* precision (the quotient is infinite or not a number), always with a
\* negative one
InRange(cur, pred, prec, cap) ==
  prec # 0 /\ Sgn(prec) * Abs(cur - pred) < (cap - 1) * Abs(prec)
Quantize(cur, pred, prec, cap, radius) ==
  IF InRange(cur, pred, prec, cap)
  THEN LET t == IntervalSymbol(cur - pred, prec, radius)
           rec == ToFloat(pred + 2 * (t - radius) * prec)
       IN IF BoundViolated(cur, rec, prec) THEN Escape(cur)
          ELSE [type |-> t, recon |-> rec, unpred |-> FALSE]
  ELSE Escape(cur)

(***************************************************************************)
(* Coefficient quantization (lines 591-662).                               *)
(***************************************************************************)
\* lines 591-603: the coefficients of the regression blocks move to the front
RECURSIVE Compact(_, _, _, _)
Compact(params, ind, i, count) ==
  IF i = num_blocks THEN [params |-> params, reg_count |-> count]
  ELSE IF ind[i] = 0
       THEN Compact([idx \in DOMAIN params |->
                       IF idx % num_blocks = count /\ count < num_blocks
                       THEN params[(idx \div num_blocks) * num_blocks + i]
                       ELSE params[idx]],
                    ind, i + 1, count + 1)
       ELSE Compact(params, ind, i + 1, count)

\* rel_param_err = 0.025 (lines 606-610)
CoeffPrecision(prec, e) ==
  IF e = 3 THEN RoundDiv(25 * prec, 1000) ELSE RoundDiv(25 * prec, 1000 * block_size)

\* one coefficient against the running reference (lines 638-659)
QuantizeCoeff(cur, last, p) == Quantize(cur, last, p, coeff_intvCapacity_sz, coeff_intvRadius)

\* the reference following the true coefficient
UpdatedLast_TrueValue(q, cur_coeff) == cur_coeff
\* last_coeffcients[e] after one coefficient (lines 645-656): the
\* reconstruction, or the coefficient itself when it escaped
UpdatedLast(q, cur_coeff) == q.recon

RECURSIVE CoeffLoop(_, _, _)
CoeffLoop(st, i, prec) ==
  IF i = st.reg_count THEN st
  ELSE LET q == [e \in 0 .. 3 |->
                   QuantizeCoeff(st.params[e * num_blocks + i], st.last[e],
                                 CoeffPrecision(prec, e))]
           last == [e \in 0 .. 3 |-> UpdatedLast(q[e], st.params[e * num_blocks + i])]
       IN CoeffLoop(
            [st EXCEPT
               \* line 659: reg_params_separte[e][i] = last_coeffcients[e]
               !.params = [idx \in DOMAIN st.params |->
                             IF idx % num_blocks = i
                             THEN last[idx \div num_blocks] ELSE st.params[idx]],
               !.last = last,
               !.type = [e \in 0 .. 3 |-> Append(st.type[e], q[e].type)],
               !.unpred = [e \in 0 .. 3 |->
                             IF q[e].unpred
                             THEN Append(st.unpred[e], st.params[e * num_blocks + i])
                             ELSE st.unpred[e]]],
            i + 1, prec)

(***************************************************************************)
(* Quantization of one block.  The result is [buf, type, recon, unpred]:   *)
(* the buffer afterwards, the symbol and the reconstruction of each        *)
(* element, and the escaped values in the order they were appended.        *)
(***************************************************************************)
\* regression blocks (lines 701-750 and 851-900): pred stays a local
RegressionElement(buf, params, pos, n, prec, cap, radius) ==
  Quantize(buf[CellOf(n)],
           RegressionAt(params, pos, LocalI(n), LocalJ(n), LocalK(n)),
           prec, cap, radius)

\* the values of the escaped elements lo .. hi, in loop order
RECURSIVE EscapedValues(_, _, _, _)
EscapedValues(q, vals, lo, hi) ==
  IF lo > hi THEN <<>>
  ELSE IF lo = hi THEN (IF q[lo].unpred THEN <<vals[lo]>> ELSE <<>>)
  ELSE LET mid == (lo + hi) \div 2
       IN EscapedValues(q, vals, lo, mid) \o EscapedValues(q, vals, mid + 1, hi)

RegressionBlock(buf, params, pos, prec, cap, radius) ==
  LET q == Array([n \in Elements |->
                    RegressionElement(buf, params, pos, n, prec, cap, radius)])
  IN [buf |-> buf,
      type |-> [n \in Elements |-> q[n].type],
      recon |-> [n \in Elements |-> q[n].recon],
      unpred |-> EscapedValues(q, [n \in Elements |-> buf[CellOf(n)]],
                             0, max_num_block_elements - 1)]

\* substitution only of values equal to the mean
MeanSubstituted_OnlyEqual(cur, m, prec) == cur = m
\* line 767
MeanSubstituted(cur, m, prec) == Abs(cur - m) <= prec

\* the whole capacity
intvCapacity_sz_Whole(cap) == cap
\* lines 669, 819
intvCapacity_sz(cap) == cap - 2

\* Lorenzo blocks, one element (lines 766-800 in mean mode, 915-942 otherwise)
LorenzoElement(st, n, prec, cap, radius, meanMode, m) ==
  LET c == CellOf(n)
      cur == st.buf[c]
  IN IF meanMode /\ MeanSubstituted(cur, m, prec)
     THEN [buf |-> [st.buf EXCEPT ![c] = m],
           type |-> [st.type EXCEPT ![n] = 1],
           recon |-> [st.recon EXCEPT ![n] = m],
           unpred |-> st.unpred]
     ELSE LET q == Quantize(cur, ToFloat(Lorenzo(st.buf, c)), prec,
                            intvCapacity_sz(cap), radius)
          IN [buf |-> [st.buf EXCEPT ![c] = q.recon],
              type |-> [st.type EXCEPT ![n] = q.type],
              recon |-> [st.recon EXCEPT ![n] = q.recon],
              unpred |-> IF q.unpred THEN Append(st.unpred, cur) ELSE st.unpred]

\* elements n .. n+count-1 in loop order: the first half of the range, then
\* the second half from the state the first half leaves (the test on the
\* length only makes the first half be evaluated before the second starts)
RECURSIVE LorenzoRun(_, _, _, _, _, _, _, _)
LorenzoRun(st, n, count, prec, cap, radius, meanMode, m) ==
  IF count = 0 THEN st
  ELSE IF count = 1 THEN LorenzoElement(st, n, prec, cap, radius, meanMode, m)
  ELSE LET half == count \div 2
           first == LorenzoRun(st, n, half, prec, cap, radius, meanMode, m)
       IN IF Len(first.unpred) >= 0
          THEN LorenzoRun(first, n + half, count - half, prec, cap, radius, meanMode, m)
          ELSE first

LorenzoBlock(buf, prec, cap, radius, meanMode, m) ==
  LorenzoRun([buf |-> buf,
              type |-> Array([n \in Elements |-> 0]),
              recon |-> Array([n \in Elements |-> 0]),
              unpred |-> <<>>],
             0, max_num_block_elements, prec, cap, radius, meanMode, m)

(***************************************************************************)
(* Inputs.                                                                 *)
(***************************************************************************)
Shapes == {<<1, 1, 1>>, <<6, 6, 12>>}
Precisions == {250, 251}
Tightest == CHOOSE p \in Precisions : \A q \in Precisions : p <= q
BadPrecisions == {0, -250}
OutsideValues == {0, 500 * FloatUlp}
SpikeHeights == {63 * FloatUlp, 438 * FloatUlp}
DipHeight == -875 * FloatUlp
RippleHeight == 2 * FloatUlp
RoughHeight == 500 * FloatUlp

BaseLevel(k) == FloatUlp * k * (505 * k - 442)
\* a level, a slope along the fastest axis, and on top either one spike in the
\* middle of the volume or a ripple; or a level with a first block that no
\* plane fits; or a slope from 0 with one dip in the middle of the volume
Patterns ==
  {p \in [base : {BaseLevel(k) : k \in 0 .. MaxBase},
          slope : {2 * FloatUlp * k : k \in 0 .. MaxSlope},
          spike : {0, DipHeight} \cup SpikeHeights,
          ripple : {0, RippleHeight},
          rough : {0, RoughHeight}] :
      /\ p.spike = 0 \/ p.ripple = 0
      /\ p.rough = 0 \/ (p.spike = 0 /\ p.ripple = 0 /\ p.slope = 0)
      /\ p.spike # DipHeight \/ p.base = 0}
Volume(shape, p) ==
  [idx \in 0 .. (shape[1] * shape[2] * shape[3] - 1) |->
     p.base + p.slope * (idx % shape[3])
     + (IF idx = (shape[1] * shape[2] * shape[3]) \div 2 THEN p.spike ELSE 0)
     + p.ripple * (idx % 2)
     + (IF (idx % shape[3]) < block_size THEN p.rough * (idx % 2) ELSE 0)]

\* exe_params as SZ_Init leaves it: a fixed interval count, or the tuner
Configurations ==
  [optQuantMode : {0, 1}, intvCapacity : {8}, intvRadius : {4}, SZ_SIZE_TYPE : {8}]
\* what the tuner may report: frequencies are in percent
NoTuner == [intervals |-> 0, dense_pos |-> 0, mean_flush_freq |-> 0,
            sz_sample_correct_freq |-> 0]
Tuners(data) ==
  [intervals : {16}, dense_pos : {data[0]}, mean_flush_freq : {10, 60},
   sz_sample_correct_freq : {70}]

Buffers == {"result_type", "result_unpredictable_data", "reg_params", "pred_buffer"}

NoStaged == [pass |-> "none", block |-> 0, slack |-> 0, vals |-> <<>>, samples |-> <<>>]

InitLocals ==
  /\ blk = 0
  /\ reg_params = <<>>
  /\ reg_params_pos = 0
  /\ pred_buffer = <<>>
  /\ staged = NoStaged
  /\ quantization_intervals = 0
  /\ use_mean = 0
  /\ mean = 0
  /\ indicator = <<>>
  /\ reg_count = 0
  /\ coeff_type = <<>>
  /\ coeff_unpred_data = <<>>
  /\ result_type = <<>>
  /\ recon = <<>>
  /\ result_unpredictable_data = <<>>
  /\ blockwise_unpred_count = <<>>
  /\ total_unpred = 0

ValidInit ==
  /\ \E shape \in Shapes, p \in Patterns :
       /\ r1 = shape[1] /\ r2 = shape[2] /\ r3 = shape[3]
       /\ oriData = Volume(shape, p)
  /\ realPrecision = Tightest
  /\ exe_params \in Configurations
  /\ tuner \in IF exe_params.optQuantMode = 1 THEN Tuners(oriData) ELSE {NoTuner}

\* calls that break the precondition r1, r2, r3 >= 1 and realPrecision > 0
InvalidInit ==
  /\ \/ /\ \E shape \in {<<0, 1, 1>>, <<1, 0, 1>>, <<1, 1, 0>>} :
             r1 = shape[1] /\ r2 = shape[2] /\ r3 = shape[3]
        /\ oriData = <<>>
        /\ realPrecision \in Precisions
     \/ /\ r1 = 1 /\ r2 = 1 /\ r3 = 1
        /\ oriData = Volume(<<1, 1, 1>>, [base |-> BaseLevel(1), slope |-> 0, spike |-> 0, ripple |-> 0, rough |-> 0])
        /\ realPrecision \in BadPrecisions
  /\ exe_params \in {c \in Configurations : c.optQuantMode = 0}
  /\ tuner = NoTuner

InitCore ==
  /\ ValidInit \/ InvalidInit
  /\ outside = 0
  /\ entry_params = exe_params
  /\ pc = "idle"
  /\ live = {}
  /\ InitLocals
  /\ result = <<>>
  /\ result_capacity = 0
  /\ comp_size = 0
  /\ history = <<>>

\* struct sz_opencl_state as its constructor leaves it (lines 13-24), here
\* not yet allocated; the strings stand for the pointers to them
NoHandle == [state |-> 0, made |-> 0,
             heap |-> [o \in 1 .. MaxHandles |->
                         [live |-> FALSE, code |-> 0, str |-> "nullptr"]],
             ret |-> "none", undefined |-> FALSE,
             call |-> [op |-> "none", kind |-> "none", code |-> 0, str |-> "nullptr",
                       arg |-> 0, obj |-> 0]]
Init == InitCore /\ probe = NoHandle

(***************************************************************************)
(* The call.                                                               *)
(***************************************************************************)
ValidExtents == r1 >= 1 /\ r2 >= 1 /\ r3 >= 1

\* lines 176-216: nothing is checked; the four working buffers are obtained.
\* With a zero extent the block counts wrap around (size_t) and the first
\* staging load is outside the empty volume: what follows is undefined.
Entry ==
  /\ pc = "idle"
  /\ live' = Buffers
  /\ IF ValidExtents
     THEN /\ pc' = "fit"
          /\ reg_params' = [idx \in 0 .. (4 * num_blocks - 1) |-> 0]
          /\ pred_buffer' = [c \in 0 .. (PredBufferLen - 1) |-> 0]
     ELSE /\ pc' = "undefined"
          /\ UNCHANGED <<reg_params, pred_buffer>>
  /\ blk' = 0
  /\ reg_params_pos' = 0
  /\ entry_params' = exe_params
  /\ UNCHANGED <<inputs, realPrecision, exe_params, outside, staged,
                 quantization_intervals, use_mean, mean, indicator, reg_count,
                 coeff_type, coeff_unpred_data, result_type, recon,
                 result_unpredictable_data, blockwise_unpred_count, total_unpred,
                 output, history>>
  /\ UNCHANGED probe

\* lines 217-282, one block
FitBlock ==
  /\ pc = "fit"
  /\ LET vals == StageBlock(blk, FitSlack)
         fit == RegressionFit(vals)
     IN /\ pred_buffer' = StageDense(pred_buffer, vals)
        /\ staged' = [pass |-> "fit", block |-> blk, slack |-> FitSlack, vals |-> vals,
                      samples |-> <<>>]
        /\ reg_params' = [idx \in DOMAIN reg_params |->
                            IF idx % num_blocks = reg_params_pos
                            THEN fit[idx \div num_blocks + 1] ELSE reg_params[idx]]
  /\ reg_params_pos' = reg_params_pos + 1
  /\ blk' = blk + 1
  /\ pc' = IF blk + 1 = num_blocks THEN "tune" ELSE "fit"
  /\ UNCHANGED <<inputs, realPrecision, exe_params, outside, entry_params, live,
                 quantization_intervals, use_mean, mean, indicator, reg_count,
                 coeff_type, coeff_unpred_data, result_type, recon,
                 result_unpredictable_data, blockwise_unpred_count, total_unpred,
                 output, history>>
  /\ UNCHANGED probe

\* lines 296-309
DenseMean(data, dense_pos, prec) ==
  LET near == [i \in DOMAIN data |-> IF Abs(data[i] - dense_pos) < prec THEN 1 ELSE 0]
      mean_count == SumTo(near, num_elements - 1)
      sum == SumTo([i \in DOMAIN data |-> near[i] * data[i]], num_elements - 1)
  IN IF mean_count > 0 THEN ToFloatDiv(sum, mean_count) ELSE 0

\* lines 289-290
UseMean(t) ==
  IF t.mean_flush_freq > 50 \/ t.mean_flush_freq > t.sz_sample_correct_freq
  THEN 1 ELSE 0

\* updateQuantizationInfo (called at line 291) is defined outside this file:
\* it stores the interval count as the capacity and half of it as the radius
\* in the process-wide exe_params, which lines 320-321 then read back
updateQuantizationInfo(params, quant_intervals) ==
  [params EXCEPT !.intvCapacity = quant_intervals,
                 !.intvRadius = quant_intervals \div 2]

SomeLoadOutside(slack) == \E b \in 0 .. (num_blocks - 1) : ReadsOutside(b, slack)

\* lines 284-330: the interval count, the mean, the indicator array, the
\* cleared buffer
Tune ==
  /\ pc = "tune"
  /\ IF exe_params.optQuantMode = 1
     THEN /\ quantization_intervals' = tuner.intervals
          /\ use_mean' = UseMean(tuner)
          /\ exe_params' = updateQuantizationInfo(exe_params, tuner.intervals)
     ELSE /\ quantization_intervals' = exe_params.intvCapacity
          /\ use_mean' = 0
          /\ UNCHANGED exe_params
  /\ mean' = IF use_mean' = 1 THEN DenseMean(oriData, tuner.dense_pos, realPrecision)
             ELSE 0
  /\ indicator' = [b \in 0 .. (num_blocks - 1) |-> 0]
  /\ live' = live \cup {"indicator"}
  /\ pred_buffer' = [c \in DOMAIN pred_buffer |-> 0]
  /\ reg_params_pos' = 0
  /\ blk' = 0
  /\ pc' = "select"
  \* the memory past the end of the volume, as the later passes will find it
  /\ outside' \in IF use_mean' = 0 /\ SomeLoadOutside(SelectSlack)
                  THEN OutsideValues ELSE {outside}
  /\ UNCHANGED <<inputs, realPrecision, entry_params, reg_params, staged, reg_count,
                 coeff_type, coeff_unpred_data, result_type, recon,
                 result_unpredictable_data, blockwise_unpred_count, total_unpred,
                 output, history>>
  /\ UNCHANGED probe

\* lines 333-589, one block
SelectBlock ==
  /\ pc = "select"
  /\ LET slack == IF use_mean = 1 THEN MeanSelectSlack ELSE SelectSlack
         vals == StageBlock(blk, slack)
         buf == StageWithHalo(pred_buffer, vals)
     IN /\ pred_buffer' = buf
        /\ staged' = [pass |-> "select", block |-> blk, slack |-> slack, vals |-> vals,
                      samples |-> Samples]
        /\ indicator' = [indicator EXCEPT ![blk] =
             SelectPredictor(buf, reg_params, reg_params_pos, Noise(realPrecision),
                             use_mean = 1, mean)]
  /\ reg_params_pos' = reg_params_pos + 1
  /\ blk' = blk + 1
  /\ pc' = IF blk + 1 = num_blocks THEN "coeff" ELSE "select"
  /\ UNCHANGED <<inputs, realPrecision, exe_params, outside, entry_params, live,
                 reg_params, quantization_intervals, use_mean, mean, reg_count,
                 coeff_type, coeff_unpred_data, result_type, recon,
                 result_unpredictable_data, blockwise_unpred_count, total_unpred,
                 output, history>>
  /\ UNCHANGED probe

\* lines 591-667
CoeffQuantize ==
  /\ pc = "coeff"
  /\ LET cp == Compact(reg_params, indicator, 0, 0)
         st == CoeffLoop([params |-> cp.params, reg_count |-> cp.reg_count,
                          last |-> [e \in 0 .. 3 |-> 0],
                          type |-> [e \in 0 .. 3 |-> <<>>],
                          unpred |-> [e \in 0 .. 3 |-> <<>>]],
                         0, realPrecision)
     IN /\ reg_params' = st.params
        /\ reg_count' = cp.reg_count
        /\ coeff_type' = st.type
        /\ coeff_unpred_data' = st.unpred
  /\ live' = live \cup {"coeff_result_type", "coeff_unpredictable_data",
                        "blockwise_unpred_count"}
  /\ reg_params_pos' = 0
  /\ blk' = 0
  /\ pc' = "quant"
  /\ UNCHANGED <<inputs, realPrecision, exe_params, outside, entry_params,
                 pred_buffer, staged,
                 quantization_intervals, use_mean, mean, indicator, result_type,
                 recon, result_unpredictable_data, blockwise_unpred_count,
                 total_unpred, output, history>>
  /\ UNCHANGED probe

\* the quantization loop writing through the caller's array
cur_data_pos_InPlace == "oriData"
\* lines 708-710, 755-757, 858-860, 905-907: the array that cur_data_pos
\* walks, and that the Lorenzo branch writes each reconstruction into
cur_data_pos == "pred_buffer"

\* data with the elements of block b that lie inside the volume replaced by
\* the block's values vals
StoreInto(data, b, vals) ==
  [idx \in DOMAIN data |->
     LET x == idx \div dim0_offset
         y == (idx \div dim1_offset) % r2
         z == idx % r3
     IN IF /\ x \div block_size = BlockI(b)
           /\ y \div block_size = BlockJ(b)
           /\ z \div block_size = BlockK(b)
        THEN vals[((x % block_size) * block_size + (y % block_size)) * block_size
                  + (z % block_size)]
        ELSE data[idx]]

\* lines 668-960, one block
\* the cursor advancing after every block
AdvanceCursor_Always(pos, ind) == pos + 1
\* reg_params_pos++ closes the regression branch only (lines 747, 897)
AdvanceCursor(pos, ind) == IF ind = 0 THEN pos + 1 ELSE pos

QuantBlock ==
  /\ pc = "quant"
  /\ LET slack == IF use_mean = 1 THEN MeanQuantSlack ELSE QuantSlack
         vals == StageBlock(blk, slack)
         buf == StageWithHalo(pred_buffer, vals)
         q == IF indicator[blk] = 0
              THEN RegressionBlock(buf, reg_params, reg_params_pos, realPrecision,
                                   exe_params.intvCapacity, exe_params.intvRadius)
              ELSE LorenzoBlock(buf, realPrecision, exe_params.intvCapacity,
                                exe_params.intvRadius, use_mean = 1, mean)
     IN /\ pred_buffer' = IF cur_data_pos = "pred_buffer" THEN q.buf ELSE buf
        /\ oriData' = IF cur_data_pos = "oriData" /\ indicator[blk] = 1
                      THEN StoreInto(oriData, blk, q.recon) ELSE oriData
        /\ staged' = [pass |-> "quant", block |-> blk, slack |-> slack, vals |-> vals,
                      samples |-> <<>>]
        /\ result_type' = Append(result_type, q.type)
        /\ recon' = Append(recon, q.recon)
        /\ result_unpredictable_data' = result_unpredictable_data \o q.unpred
        /\ blockwise_unpred_count' = Append(blockwise_unpred_count, Len(q.unpred))
        /\ total_unpred' = total_unpred + Len(q.unpred)
  /\ reg_params_pos' = AdvanceCursor(reg_params_pos, indicator[blk])
  /\ blk' = blk + 1
  /\ pc' = IF blk + 1 = num_blocks THEN "serialize" ELSE "quant"
  /\ UNCHANGED <<r1, r2, r3, tuner, realPrecision, exe_params, outside, entry_params, live,
                 reg_params, quantization_intervals, use_mean, mean, indicator,
                 reg_count, coeff_type, coeff_unpred_data, output, history>>
  /\ UNCHANGED probe

(***************************************************************************)
(* The container.  result is the sequence of sections in the order the     *)
(* write position passes them; a section is its name, the coefficient it   *)
(* belongs to (or NoCoeff), its byte count and its content as a tuple.     *)
(***************************************************************************)
MetaDataByteLength == 28
NoCoeff == -1
Garbage == <<-1>>

Section(name, e, bytes, val) == [name |-> name, e |-> e, bytes |-> bytes, val |-> val]
Field(name, bytes, v) == Section(name, NoCoeff, bytes, <<v>>)
CoeffField(name, e, bytes, v) == Section(name, e, bytes, <<v>>)

SumBytes(sections) ==
  SumRange([i \in 1 .. Len(sections) |-> sections[i].bytes], 1, Len(sections))
\* the write position before section i
OffsetOf(sections, i) == SumBytes(SubSeq(sections, 1, i - 1))

RECURSIVE Ascending(_)
Ascending(S) ==
  IF S = {} THEN <<>>
  ELSE LET least == CHOOSE x \in S : \A y \in S : x <= y
       IN <<least>> \o Ascending(S \ {least})

RECURSIVE Flatten(_)
Flatten(blocks) ==
  IF blocks = <<>> THEN <<>>
  ELSE [n \in 1 .. max_num_block_elements |-> Head(blocks)[n - 1]] \o Flatten(Tail(blocks))

\* the symbols that occur: init() gives each of them a code
SymbolsOf(types) == UNION {{types[b][n] : n \in DOMAIN types[b]} : b \in DOMAIN types}
NodeCount(symbols) == Cardinality(symbols) * 2 - 1

\* Huffman coding and the general-purpose array compressor are library code:
\* only the sizes they report matter here
TreeByteSize(nodeCount) == 1 + 7 * nodeCount
RECURSIVE CodeLength(_)
CodeLength(k) == IF k <= 2 THEN 1 ELSE 1 + CodeLength((k + 1) \div 2)
EncodedSize(count, symbols) == (count * CodeLength(Cardinality(symbols)) + 7) \div 8
IndicatorSize(n) == (n + 7) \div 8
CompressedArraySize(n, width) == MetaDataByteLength + SizeofSizeT + n * width

\* lines 978-988
meta_data_offset == 3 + 1 + MetaDataByteLength
CallocSize(treeByteSize) ==
  meta_data_offset + exe_params.SZ_SIZE_TYPE + SizeofDouble + SizeofInt + SizeofInt
  + treeByteSize + num_blocks * SizeofShort + num_blocks * SizeofShort
  + num_blocks * SizeofFloat + total_unpred * SizeofFloat + num_elements * SizeofInt

\* lines 989-1017
HeaderSections(symbols) ==
  << Section("meta", NoCoeff, meta_data_offset, <<>>),
     Field("num_elements", exe_params.SZ_SIZE_TYPE, num_elements),
     Field("block_size", SizeofInt, block_size),
     Field("realPrecision", SizeofDouble, realPrecision),
     Field("quantization_intervals", SizeofInt, quantization_intervals),
     Field("treeByteSize", SizeofInt, TreeByteSize(NodeCount(symbols))),
     Field("nodeCount", SizeofInt, NodeCount(symbols)),
     Section("tree", NoCoeff, TreeByteSize(NodeCount(symbols)), Ascending(symbols)),
     Field("use_mean", 1, use_mean),
     Field("mean", SizeofFloat, mean),
     Section("indicator", NoCoeff, IndicatorSize(num_blocks),
             [b \in 1 .. num_blocks |-> indicator[b - 1]]) >>

\* lines 1021-1056, one coefficient
CoeffSections(e) ==
  LET symbols == {coeff_type[e][i] : i \in 1 .. Len(coeff_type[e])}
      unpredictable_count == Len(coeff_unpred_data[e])
  IN << CoeffField("precision", e, SizeofDouble, CoeffPrecision(realPrecision, e)),
        CoeffField("coeff_intvRadius", e, SizeofInt, coeff_intvRadius),
        CoeffField("treeByteSize", e, SizeofInt, TreeByteSize(NodeCount(symbols))),
        CoeffField("nodeCount", e, SizeofInt, NodeCount(symbols)),
        Section("tree", e, TreeByteSize(NodeCount(symbols)), Ascending(symbols)),
        CoeffField("typeArray_size", e, SizeofSizeT, EncodedSize(reg_count, symbols)),
        Section("coeff_type", e, EncodedSize(reg_count, symbols), coeff_type[e]),
        CoeffField("coeff_unpredictable_count", e, SizeofInt, unpredictable_count),
        Section("coeff_unpred_data", e, unpredictable_count * SizeofFloat,
                coeff_unpred_data[e]) >>

\* the four coefficient sections written whatever reg_count is
AllCoeffSections_Always ==
  CoeffSections(0) \o CoeffSections(1) \o CoeffSections(2) \o CoeffSections(3)
\* lines 1020-1057
AllCoeffSections ==
  IF reg_count > 0
  THEN CoeffSections(0) \o CoeffSections(1) \o CoeffSections(2) \o CoeffSections(3)
  ELSE <<>>

\* lines 1061-1077
UnpredSections ==
  << Field("total_unpred", SizeofSizeT, total_unpred),
     Field("compressed_blockwise_unpred_count_size", SizeofSizeT,
           CompressedArraySize(num_blocks, SizeofInt)),
     Section("compressed_bw_unpred_count", NoCoeff,
             CompressedArraySize(num_blocks, SizeofInt), blockwise_unpred_count),
     Section("result_unpredictable_data", NoCoeff, total_unpred * SizeofFloat,
             result_unpredictable_data) >>

\* lines 1094-1101: a chunk's size is kept in an unsigned short
ChunkSize(symbols) == EncodedSize(max_num_block_elements, symbols) % 65536

\* lines 1105-1115
TypeSections(symbols) ==
  LET type_array_block_size == [b \in 1 .. num_blocks |-> ChunkSize(symbols)]
      total_type_array_size == num_blocks * EncodedSize(max_num_block_elements, symbols)
  IN << Field("compressed_type_array_block_size", SizeofSizeT,
              CompressedArraySize(num_blocks, SizeofShort)),
        Section("compressed_type_array_block", NoCoeff,
                CompressedArraySize(num_blocks, SizeofShort), type_array_block_size),
        Section("type_array", NoCoeff, total_type_array_size, Flatten(result_type)) >>

\* a section lying even partly past the end of the buffer is in memory the
\* buffer does not own: a later allocation may be handed that memory
Clobbered(sections, capacity) ==
  [i \in 1 .. Len(sections) |->
     IF sections[i].bytes > 0 /\ OffsetOf(sections, i) + sections[i].bytes > capacity
     THEN [sections[i] EXCEPT !.val = Garbage]
     ELSE sections[i]]

\* lines 962-1081: the tree, the buffer, and every section up to the
\* unpredictable values
WriteHead ==
  /\ pc = "serialize"
  /\ LET symbols == SymbolsOf(result_type)
     IN /\ result_capacity' = CallocSize(TreeByteSize(NodeCount(symbols)))
        /\ result' = HeaderSections(symbols) \o AllCoeffSections \o UnpredSections
  \* treeBytes, the four coefficient trees with their bytes and
  \* compressed_bw_unpred_count are obtained and released within this step
  /\ live' = (live \cup {"huffmanTree", "result"})
              \ {"pred_buffer", "coeff_result_type", "coeff_unpredictable_data",
                 "blockwise_unpred_count", "reg_params", "indicator",
                 "result_unpredictable_data"}
  /\ pc' = "encode"
  /\ UNCHANGED <<inputs, realPrecision, exe_params, outside, entry_params, locals,
                 comp_size, history>>
  /\ UNCHANGED probe

\* the write position has left, or is about to leave, the buffer
PastTheEnd(sections) == SumBytes(sections) > result_capacity

\* lines 1082-1126: the symbol chunks, the releases, the return.  When the
\* sections written so far already run past the end of the buffer, the two
\* arrays obtained at lines 1085-1088 may lie over them.
EncodeTypes ==
  /\ pc = "encode"
  /\ \E overlaid \in IF PastTheEnd(result) THEN BOOLEAN ELSE {FALSE} :
       result' = (IF overlaid THEN Clobbered(result, result_capacity) ELSE result)
                 \o TypeSections(SymbolsOf(result_type))
  /\ comp_size' = SumBytes(result')
  \* type_array_buffer and type_array_block_size are obtained and released
  \* within this step; what SZ_compress_args returned at line 1106 is not
  /\ live' = (live \cup {"compressed_type_array_block"}) \ {"result_type", "huffmanTree"}
  /\ pc' = "done"
  /\ UNCHANGED <<inputs, realPrecision, exe_params, outside, entry_params, locals,
                 result_capacity, history>>
  /\ UNCHANGED probe

\* writing past the end of the buffer damages the allocator's bookkeeping: an
\* allocation or release at lines 1085-1124 may end the process instead
HeapAbort ==
  /\ pc = "encode"
  /\ PastTheEnd(result \o TypeSections(SymbolsOf(result_type)))
  /\ pc' = "fault"
  /\ UNCHANGED <<inputs, realPrecision, exe_params, outside, entry_params, live,
                 locals, output, history>>
  /\ UNCHANGED probe

\* lines 474-493 and 831-850: a load past the end of oriData may hit an
\* unmapped page
LoadFault ==
  /\ pc \in {"select", "quant"}
  /\ use_mean = 0
  /\ ReadsOutside(blk, IF pc = "select" THEN SelectSlack ELSE QuantSlack)
  /\ pc' = "fault"
  /\ UNCHANGED <<inputs, realPrecision, exe_params, outside, entry_params, live,
                 locals, output, history>>
  /\ UNCHANGED probe

(***************************************************************************)
(* The caller: after a call returns it calls again on the same volume,     *)
(* with the same or a looser precision, after putting exe_params back to   *)
(* what the first call found.                                              *)
(***************************************************************************)
Outcome ==
  [result |-> result, comp_size |-> comp_size, total_unpred |-> total_unpred,
   realPrecision |-> realPrecision, entry_params |-> entry_params,
   use_mean |-> use_mean]

NextCall ==
  /\ pc = "done"
  /\ history = <<>>
  /\ realPrecision \in Precisions
  /\ history' = Append(history, Outcome)
  /\ realPrecision' \in {p \in Precisions : p >= realPrecision}
  /\ exe_params' = entry_params
  /\ entry_params' = exe_params'
  /\ outside' = 0
  /\ pc' = "idle"
  /\ live' = {}
  /\ blk' = 0
  /\ reg_params' = <<>>
  /\ reg_params_pos' = 0
  /\ pred_buffer' = <<>>
  /\ staged' = NoStaged
  /\ quantization_intervals' = 0
  /\ use_mean' = 0
  /\ mean' = 0
  /\ indicator' = <<>>
  /\ reg_count' = 0
  /\ coeff_type' = <<>>
  /\ coeff_unpred_data' = <<>>
  /\ result_type' = <<>>
  /\ recon' = <<>>
  /\ result_unpredictable_data' = <<>>
  /\ blockwise_unpred_count' = <<>>
  /\ total_unpred' = 0
  /\ result' = <<>>
  /\ result_capacity' = 0
  /\ comp_size' = 0
  /\ UNCHANGED inputs
  /\ UNCHANGED probe

Next ==
  \/ Entry \/ FitBlock \/ Tune \/ SelectBlock \/ CoeffQuantize \/ QuantBlock
  \/ WriteHead \/ EncodeTypes \/ HeapAbort \/ LoadFault \/ NextCall
Spec == Init /\ [][Next]_vars

(***************************************************************************)
(* The accelerator probe (lines 26-168).  An object is [live, code, str]:  *)
(* whether it is allocated, and its error fields.                          *)
(***************************************************************************)
\* the cl::Error exceptions a call may meet: the one line 51 throws, and
\* those of the accelerator API
ClErrors ==
  {[code |-> -1, str |-> "Failed to find a GPU"],
   [code |-> -5, str |-> "clCreateContext"],
   [code |-> -6, str |-> "clCreateCommandQueue"]}

\* lines 28-68.  kind is how the body ends: "none" (it returns at line 56),
\* "cl" (a cl::Error is thrown after the allocation), "other" (another
\* exception is thrown after the allocation), "alloc" (new itself throws at
\* line 31, before *state is assigned).  In the last case the handler of
\* lines 62-66 deletes whatever the caller left in *state: a null pointer,
\* an object of an earlier call, or a pointer that is not one to an
\* allocated object, for which delete is undefined
sz_opencl_init ==
  /\ ~probe.undefined
  /\ probe.made < MaxHandles
  /\ \E kind \in {"none", "cl", "other", "alloc"} :
     \E e \in IF kind = "cl" THEN ClErrors ELSE {[code |-> 0, str |-> "nullptr"]} :
        LET old == probe.state
            id == probe.made + 1
            this == [op |-> "sz_opencl_init", kind |-> kind, code |-> e.code,
                     str |-> e.str, arg |-> old,
                     obj |-> IF kind = "alloc" THEN 0 ELSE id]
            without(o) == [probe.heap EXCEPT ![o] = [@ EXCEPT !.live = FALSE]]
        IN IF kind # "alloc"
           THEN probe' = [probe EXCEPT
                            !.made = id,
                            !.heap = [@ EXCEPT ![id] = [live |-> kind # "other",
                                                        code |-> e.code, str |-> e.str]],
                            !.state = IF kind = "other" THEN 0 ELSE id,
                            !.ret = IF kind = "none" THEN "SZ_SCES" ELSE "SZ_NSCS",
                            !.call = this]
           ELSE IF old = 0
           THEN probe' = [probe EXCEPT !.ret = "SZ_NSCS", !.call = this]
           ELSE IF old \in DOMAIN probe.heap /\ probe.heap[old].live
           THEN probe' = [probe EXCEPT !.heap = without(old), !.state = 0,
                                       !.ret = "SZ_NSCS", !.call = this]
           ELSE probe' \in {[probe EXCEPT !.undefined = TRUE, !.heap = h, !.state = 0,
                                          !.ret = r, !.call = this] :
                              h \in {probe.heap}
                                      \cup {without(o) : o \in {x \in DOMAIN probe.heap :
                                                                  probe.heap[x].live}},
                              r \in {"SZ_NSCS", "abort"}}
  /\ UNCHANGED core

\* lines 70-75, called on a null handle or on an allocated object
sz_opencl_release ==
  /\ ~probe.undefined
  /\ probe.state = 0 \/ (probe.state \in DOMAIN probe.heap /\ probe.heap[probe.state].live)
  /\ probe' = [probe EXCEPT
                 !.heap = [o \in DOMAIN probe.heap |->
                             IF o = probe.state THEN [probe.heap[o] EXCEPT !.live = FALSE]
                             ELSE probe.heap[o]],
                 !.ret = "SZ_SCES",
                 !.call = [op |-> "sz_opencl_release", kind |-> "none", code |-> 0,
                           str |-> "nullptr", arg |-> probe.state, obj |-> probe.state]]
  /\ UNCHANGED core

\* lines 77-84
sz_opencl_error_msg ==
  /\ ~probe.undefined
  /\ probe.state = 0 \/ (probe.state \in DOMAIN probe.heap /\ probe.heap[probe.state].live)
  /\ probe' = [probe EXCEPT
                 !.ret = "value",
                 !.call = [op |-> "sz_opencl_error_msg", kind |-> "none", code |-> 0,
                           str |-> IF probe.state = 0 THEN "sz opencl allocation failed"
                                   ELSE probe.heap[probe.state].str,
                           arg |-> probe.state, obj |-> probe.state]]
  /\ UNCHANGED core

\* lines 86-93
sz_opencl_error_code ==
  /\ ~probe.undefined
  /\ probe.state = 0 \/ (probe.state \in DOMAIN probe.heap /\ probe.heap[probe.state].live)
  /\ probe' = [probe EXCEPT
                 !.ret = "value",
                 !.call = [op |-> "sz_opencl_error_code", kind |-> "none",
                           code |-> IF probe.state = 0 THEN -1
                                    ELSE probe.heap[probe.state].code,
                           str |-> "nullptr", arg |-> probe.state, obj |-> probe.state]]
  /\ UNCHANGED core

\* lines 95-168, called on an allocated object: the kernel's sums match
\* ("none"), they do not ("other"), or a cl::Error is caught
sz_opencl_check ==
  /\ ~probe.undefined
  /\ probe.state \in DOMAIN probe.heap /\ probe.heap[probe.state].live
  /\ \E kind \in {"none", "cl", "other"} :
     \E e \in IF kind = "cl" THEN ClErrors ELSE {[code |-> 0, str |-> "nullptr"]} :
        probe' = [probe EXCEPT
                    !.heap = IF kind = "cl"
                             THEN [@ EXCEPT ![probe.state] =
                                     [live |-> TRUE, code |-> e.code, str |-> e.str]]
                             ELSE @,
                    !.ret = IF kind = "none" THEN "SZ_SCES" ELSE "SZ_NSCS",
                    !.call = [op |-> "sz_opencl_check", kind |-> kind, code |-> e.code,
                              str |-> e.str, arg |-> probe.state, obj |-> probe.state]]
  /\ UNCHANGED core

\* the caller declares the handle with or without a null initializer, and
\* no compression call is made
ProbeInit ==
  /\ InitCore
  /\ r1 = 1 /\ r2 = 1 /\ r3 = 1 /\ oriData[0] = 0 /\ realPrecision > 0
  /\ exe_params.optQuantMode = 0
  /\ probe \in {[NoHandle EXCEPT !.state = p] : p \in {0, -1}}
ProbeNext ==
  \/ sz_opencl_init \/ sz_opencl_release \/ sz_opencl_error_msg
  \/ sz_opencl_error_code \/ sz_opencl_check
ProbeSpec == ProbeInit /\ [][ProbeNext]_vars

(***************************************************************************)
(* Properties.                                                             *)
(***************************************************************************)
ValidCall == ValidExtents /\ realPrecision > 0
Quantized == staged.pass = "quant"
\* the block QuantBlock has just coded: its symbols and reconstructions
LastType == result_type[Len(result_type)]
LastRecon == recon[Len(recon)]

\* C1: in a valid call, every element of the block just quantized that got a
\* symbol other than 0 is reconstructed within realPrecision of the value
\* that was staged for it, in mean mode and in non-mean mode alike.
C1_ErrorBound ==
  (ValidCall /\ Quantized) =>
     \A n \in Elements :
        LastType[n] # 0 => Abs(LastRecon[n] - staged.vals[n]) <= realPrecision

\* a Lorenzo block, staged from inside the volume, with an element that was
\* in range of its prediction and yet escaped: the final check rejected its
\* reconstruction, while other elements of the block kept their symbols
C1_Witness ==
  /\ ValidCall /\ Quantized /\ indicator[staged.block] = 1
  /\ ~ReadsOutside(staged.block, staged.slack)
  /\ \E n \in Elements :
        /\ LastType[n] = 0
        /\ InRange(staged.vals[n], ToFloat(Lorenzo(pred_buffer, CellOf(n))),
                   realPrecision, exe_params.intvCapacity - 2)
  /\ \E n \in Elements : LastType[n] # 0

Returned == pc = "done"
SecondCall == history # <<>>
FirstCall == history[1]

RECURSIVE EscapeList(_, _, _, _)
EscapeList(type, vals, lo, hi) ==
  IF lo > hi THEN <<>>
  ELSE IF lo = hi THEN (IF type[lo] = 0 THEN <<vals[lo]>> ELSE <<>>)
  ELSE LET mid == (lo + hi) \div 2
       IN EscapeList(type, vals, lo, mid) \o EscapeList(type, vals, mid + 1, hi)
RECURSIVE EscapesFrom(_)
EscapesFrom(b) ==
  IF b >= num_blocks THEN <<>>
  ELSE EscapeList(result_type[b + 1], StageBlock(b, IF use_mean = 1 THEN MeanQuantSlack ELSE QuantSlack),
                  0, max_num_block_elements - 1) \o EscapesFrom(b + 1)

\* C2: the unpredictable-value list in the returned container holds, in
\* block-major order, exactly the staged original value of every element
\* whose symbol is 0, one float each.
C2_UnpredList ==
  (ValidCall /\ Returned) =>
     LET list == CHOOSE sec \in {result[i] : i \in 1 .. Len(result)} :
                    sec.name = "result_unpredictable_data" /\ sec.e = NoCoeff
     IN /\ list.val = EscapesFrom(0)
        /\ list.bytes = SizeofFloat * Len(EscapesFrom(0))

\* C3: a second call on the same volume, extents, precision and initial
\* configuration returns the same container and the same comp_size as the
\* first.
C3_Deterministic ==
  (ValidCall /\ Returned /\ SecondCall
   /\ FirstCall.realPrecision = realPrecision
   /\ FirstCall.entry_params = entry_params) =>
     /\ result = FirstCall.result
     /\ comp_size = FirstCall.comp_size

\* C4: the sections written never reach past the size given to calloc.
C4_WithinBuffer ==
  (ValidCall /\ pc \in {"encode", "done"}) => SumBytes(result) <= result_capacity

\* C5: in the returned container every declared length equals the byte count
\* of the section it announces (trees, coefficient streams, unpredictable
\* counts times 4, the two compressed arrays, the symbol chunks in sum), and
\* comp_size is the total number of bytes written.
C5_Lengths ==
  (ValidCall /\ Returned) =>
     /\ comp_size = SumBytes(result)
     /\ \A i \in 1 .. Len(result) :
          Len(result[i].val) > 0 =>
            LET sec == result[i]
                declared == sec.val[1]
            IN CASE sec.name = "treeByteSize" -> declared = result[i + 2].bytes
                 [] sec.name \in {"typeArray_size", "compressed_blockwise_unpred_count_size",
                                  "compressed_type_array_block_size"} ->
                      declared = result[i + 1].bytes
                 [] sec.name = "coeff_unpredictable_count" ->
                      declared * SizeofFloat = result[i + 1].bytes
                 [] sec.name = "total_unpred" -> declared * SizeofFloat = result[i + 3].bytes
                 [] sec.name = "compressed_type_array_block" ->
                      SumRange(sec.val, 1, Len(sec.val)) = result[i + 1].bytes
                 [] OTHER -> TRUE

ClampedIndex(b, n) ==
  Min(BlockI(b) * block_size + LocalI(n), r1 - 1) * dim0_offset
  + Min(BlockJ(b) * block_size + LocalJ(n), r2 - 1) * dim1_offset
  + Min(BlockK(b) * block_size + LocalK(n), r3 - 1)

\* C6: whichever pass staged a block, the value at local position (ii,jj,kk)
\* is the input sample at the coordinates clamped to the last valid index.
C6_Clamped ==
  (ValidCall /\ staged.pass # "none") =>
     \A n \in Elements :
        staged.vals[n] = oriData[ClampedIndex(staged.block, n)]

NearMean(n) == Abs(staged.vals[n] - mean) <= realPrecision

\* C7 as stated: in mean mode every staged element within realPrecision of
\* the mean gets symbol 1 and is reconstructed as the mean, whichever
\* predictor the block uses.
C7_AsStated ==
  (ValidCall /\ Quantized /\ use_mean = 1) =>
     \A n \in Elements : NearMean(n) => LastType[n] = 1 /\ LastRecon[n] = mean

\* C7: in mean mode, in a block whose indicator selected the Lorenzo
\* predictor, every staged element within realPrecision of the mean gets
\* symbol 1 and is reconstructed as the mean.
C7_MeanSymbol ==
  (ValidCall /\ Quantized /\ use_mean = 1 /\ indicator[staged.block] = 1) =>
     \A n \in Elements : NearMean(n) => LastType[n] = 1 /\ LastRecon[n] = mean

\* a Lorenzo block of a mean-mode call with an element near the mean, but
\* not equal to it, that got symbol 1
C7_Witness ==
  /\ ValidCall /\ Quantized /\ use_mean = 1 /\ indicator[staged.block] = 1
  /\ \E n \in Elements : NearMean(n) /\ staged.vals[n] # mean /\ LastType[n] = 1

\* the elements of block b that lie inside the volume
InVolume(b, n) ==
  /\ BlockI(b) * block_size + LocalI(n) < r1
  /\ BlockJ(b) * block_size + LocalJ(n) < r2
  /\ BlockK(b) * block_size + LocalK(n) < r3

\* C8: for an all-constant volume a valid call, in either mode, ends the
\* quantization pass with no unpredictable element and with every element of
\* the volume reconstructed as exactly the constant.
C8_Constant ==
  (ValidCall /\ pc = "serialize"
     /\ \A idx \in DOMAIN oriData : oriData[idx] = oriData[0]) =>
     /\ total_unpred = 0
     /\ \A b \in 0 .. (num_blocks - 1) : \A n \in Elements :
           InVolume(b, n) => recon[b + 1][n] = oriData[0]

Looser == SecondCall /\ FirstCall.realPrecision < realPrecision

Capacities == {exe_params.intvCapacity, exe_params.intvCapacity - 2}
PredictionsSeen == {0, mean} \cup {pred_buffer[c] : c \in DOMAIN pred_buffer}

C10_Rejected ==
  ~ValidCall => (live = {} /\ result = <<>> /\ pc \in {"idle", "rejected"})

\* C11: when the call returns, the only heap buffer of the call still held is
\* the result buffer handed to the caller.
C11_AllReleased ==
  (ValidCall /\ Returned) => live = {"result"}

\* C12: no step of the call changes the caller's volume oriData; the values
\* the quantization pass writes go to the staging buffer.
C12_InputUnchanged == [][oriData' = oriData]_vars

\* a Lorenzo block has just been quantized, and the staging buffer holds for
\* an element inside the volume a value other than the input sample
C12_Witness ==
  /\ ValidCall /\ Quantized /\ indicator[staged.block] = 1
  /\ \E n \in Elements :
        /\ InVolume(staged.block, n)
        /\ pred_buffer[CellOf(n)] # oriData[ClampedIndex(staged.block, n)]
        /\ pred_buffer[CellOf(n)] = LastRecon[n]

StreamComplete == pc \in {"serialize", "encode", "done"}
SymbolCount == SumRange([b \in 1 .. Len(result_type) |->
                           Cardinality(DOMAIN result_type[b])], 1, Len(result_type))
SymbolsInRange ==
  \A b \in 1 .. Len(result_type) : \A n \in DOMAIN result_type[b] :
     result_type[b][n] \in 0 .. (2 * quantization_intervals - 1)
ZeroOnlyEscapes ==
  \A b \in 1 .. Len(result_type) :
     Cardinality({n \in Elements : result_type[b][n] = 0}) = blockwise_unpred_count[b]

\* C14 as stated: the symbol stream has one symbol per element of the volume,
\* r1*r2*r3 in all, each in [0, 2*quantization_intervals), and 0 only for
\* escaped elements.
C14_AsStated ==
  (ValidCall /\ StreamComplete) =>
     SymbolCount = num_elements /\ SymbolsInRange /\ ZeroOnlyEscapes

\* C14: the symbol stream has one symbol per element of every block, padding
\* included: num_blocks chunks of block_size^3 symbols in block order, each
\* symbol in [0, 2*quantization_intervals), and in every block as many
\* symbols 0 as values the block added to the unpredictable data.
C14_Symbols ==
  (ValidCall /\ StreamComplete) =>
     /\ Len(result_type) = num_blocks
     /\ \A b \in 1 .. num_blocks : DOMAIN result_type[b] = Elements
     /\ SymbolCount = num_blocks * max_num_block_elements
     /\ SymbolsInRange /\ ZeroOnlyEscapes
     /\ total_unpred = SumRange(blockwise_unpred_count, 1, num_blocks)

\* a volume smaller than its blocks whose stream holds escapes and interval
\* symbols
C14_Witness ==
  /\ ValidCall /\ StreamComplete
  /\ num_elements < num_blocks * max_num_block_elements
  /\ \E n \in Elements : result_type[1][n] = 0
  /\ \E n \in Elements : result_type[1][n] > 1

\* the fields of one coefficient slot, in the order lines 1034-1054 write them
CoeffLayout ==
  << "precision", "coeff_intvRadius", "treeByteSize", "nodeCount", "tree",
     "typeArray_size", "coeff_type", "coeff_unpredictable_count",
     "coeff_unpred_data" >>
\* the section the write position reaches i sections after the indicator
AfterIndicator(i) ==
  LET at == CHOOSE k \in 1 .. Len(result) : result[k].name = "indicator"
  IN result[at + i]
\* the four slots follow the indicator, then the total unpredictable count
FourSlotsWritten ==
  /\ Len(result) >= 11 + 4 * Len(CoeffLayout) + 1
  /\ \A e \in 0 .. 3 : \A f \in 1 .. Len(CoeffLayout) :
        /\ AfterIndicator(e * Len(CoeffLayout) + f).name = CoeffLayout[f]
        /\ AfterIndicator(e * Len(CoeffLayout) + f).e = e
  /\ \A e \in 0 .. 3 :
        /\ AfterIndicator(e * Len(CoeffLayout) + 1).bytes = SizeofDouble
        /\ AfterIndicator(e * Len(CoeffLayout) + 2).bytes = SizeofInt
        /\ AfterIndicator(e * Len(CoeffLayout) + 8).bytes = SizeofInt
  /\ AfterIndicator(4 * Len(CoeffLayout) + 1).name = "total_unpred"
HeadWritten == pc = "encode"

\* C15 as stated: for every input, the sections written directly after the
\* indicator bitmap are those of the 4 coefficient slots, in fixed order,
\* followed by the total unpredictable count.
C15_AsStated ==
  (ValidCall /\ HeadWritten) => FourSlotsWritten

\* C15: when at least one block selected regression, the sections written
\* directly after the indicator bitmap are those of the 4 coefficient slots,
\* in fixed order, followed by the total unpredictable count; when no block
\* did, the total unpredictable count follows the indicator bitmap directly.
C15_CoeffSections ==
  (ValidCall /\ HeadWritten) =>
     IF reg_count > 0 THEN FourSlotsWritten
     ELSE AfterIndicator(1).name = "total_unpred"

\* the head of a container with regression blocks: coefficient symbols of
\* slot 3 written before the total unpredictable count
C15_Witness ==
  /\ ValidCall /\ HeadWritten /\ reg_count > 0
  /\ AfterIndicator(3 * Len(CoeffLayout) + 7).val = coeff_type[3]
  /\ Len(coeff_type[3]) = reg_count

\* the blocks the selection pass has been through
SelectedBlocks ==
  IF pc = "select" THEN 0 .. (blk - 1)
  ELSE IF pc \in {"coeff", "quant", "serialize", "encode", "done"}
       THEN 0 .. (num_blocks - 1) ELSE {}
\* the two accumulated errors of block b, from the volume: the block staged
\* into a cleared buffer, and the coefficients fitted to it
ErrorsOf(b) ==
  LET buf == StageWithHalo([c \in 0 .. (PredBufferLen - 1) |-> 0],
                           StageBlock(b, IF use_mean = 1 THEN MeanSelectSlack
                                         ELSE SelectSlack))
      fit == RegressionFit(StageBlock(b, FitSlack))
      params == [idx \in 0 .. (4 * num_blocks - 1) |-> fit[idx \div num_blocks + 1]]
  IN [reg |-> AccumulatedErrReg(buf, params, 0),
      sz |-> AccumulatedErrSz(buf, Noise(realPrecision), use_mean = 1, mean)]

\* C16: in either mode, for every block the selection pass has been through,
\* now and at every later point of the call, the indicator is 0 (regression)
\* exactly when the accumulated regression error is strictly less than the
\* accumulated Lorenzo error, and 1 (Lorenzo) otherwise, ties included.
C16_Selection ==
  ValidCall =>
     \A b \in SelectedBlocks :
        LET err == ErrorsOf(b)
        IN indicator[b] = (IF err.reg < err.sz THEN 0 ELSE 1)

\* a block whose two accumulated errors are equal, with indicator 1, after
\* the quantization pass has gone through it
C16_Witness ==
  /\ ValidCall /\ pc = "serialize"
  /\ \E b \in SelectedBlocks :
        /\ ErrorsOf(b).reg = ErrorsOf(b).sz
        /\ indicator[b] = 1

Selected == staged.pass = "select"

\* C17: for the block just selected, the two errors were accumulated over
\* exactly 8 positions, the corners of the inner cube of the buffer (each
\* coordinate 2 or block_size).
C17_EightSamples ==
  (ValidCall /\ Selected) =>
     /\ Len(staged.samples) = 8
     /\ {staged.samples[t].cell : t \in DOMAIN staged.samples}
          = {Cell(x, y, z) : x, y, z \in {2, block_size}}

\* C18: at every position sampled for the block just selected, the regression
\* model was evaluated at the local coordinates of that position: the
\* position's buffer coordinates less the one-cell offset on each axis.
C18_SameCoordinates ==
  (ValidCall /\ Selected) =>
     \A t \in DOMAIN staged.samples :
        LET s == staged.samples[t]
        IN s.cell = Cell(s.x + 1, s.y + 1, s.z + 1)

\* the number of regression blocks before block b, and the block that is
\* the i-th regression block (i from 0)
RegRank(b) == Cardinality({a \in 0 .. (b - 1) : indicator[a] = 0})
RegBlock(i) == CHOOSE b \in 0 .. (num_blocks - 1) : indicator[b] = 0 /\ RegRank(b) = i
\* the coefficients the fit pass computed for block b
FittedTo(b) == RegressionFit(StageBlock(b, FitSlack))
\* originals[i] being the coefficients fitted to the i-th regression block:
\* slot e's unpredictable list holds those with symbol 0, in order, and each
\* stored coefficient follows from its symbol, the fitted coefficient and the
\* coefficient stored before it
CoeffsFollow(originals) ==
  \A e \in 0 .. 3 :
     LET zeros == {i \in 0 .. (reg_count - 1) : coeff_type[e][i + 1] = 0}
         p == CoeffPrecision(realPrecision, e)
     IN /\ Len(coeff_type[e]) = reg_count
        /\ Len(coeff_unpred_data[e]) = Cardinality(zeros)
        /\ \A i \in zeros :
              coeff_unpred_data[e][Cardinality({j \in zeros : j <= i})]
                = originals[i][e + 1]
        /\ \A i \in 0 .. (reg_count - 1) :
              LET symbol == coeff_type[e][i + 1]
                  stored == reg_params[e * num_blocks + i]
                  reference == IF i = 0 THEN 0 ELSE reg_params[e * num_blocks + i - 1]
              IN IF symbol = 0 THEN stored = originals[i][e + 1]
                 ELSE /\ symbol \in 1 .. (coeff_intvCapacity_sz - 1)
                      /\ stored = ToFloat(reference
                                          + 2 * (symbol - coeff_intvRadius) * p)
                      /\ Abs(originals[i][e + 1] - stored) <= p

C20_Pairing ==
  \A b \in 0 .. (num_blocks - 1) :
     (ValidCall /\ Quantized /\ staged.block = b) =>
        /\ reg_params_pos = RegRank(b + 1)
        /\ indicator[b] = 0 =>
              /\ \A e \in 0 .. 3 :
                    Abs(reg_params[e * num_blocks + RegRank(b)] - FittedTo(b)[e + 1])
                      <= CoeffPrecision(realPrecision, e)
              /\ result_type[b + 1]
                   = RegressionBlock(StageWithHalo(pred_buffer, staged.vals),
                                     reg_params, RegRank(b), realPrecision,
                                     exe_params.intvCapacity,
                                     exe_params.intvRadius).type

\* a regression block quantized after a Lorenzo block
C20_Witness ==
  /\ ValidCall /\ num_blocks = 2 /\ Quantized /\ staged.block = 1
  /\ indicator[0] = 1 /\ indicator[1] = 0

\* C21: in a Lorenzo block, each of the 7 cells the prediction of an element
\* reads is a halo cell or the cell of an element of the block visited before
\* it, holding that element's reconstruction: the symbol and reconstruction
\* of every predicted element are those obtained from the reconstructions of
\* its predecessors, which the buffer still holds when the block is done.
C21_VisitedNeighbours ==
  (ValidCall /\ Quantized /\ indicator[staged.block] = 1) =>
     \A n \in Elements :
        LET c == CellOf(n)
            near == <<c - 1, c - strip_dim1_offset, c - strip_dim0_offset,
                      c - strip_dim1_offset - 1, c - strip_dim0_offset - 1,
                      c - strip_dim0_offset - strip_dim1_offset,
                      c - strip_dim0_offset - strip_dim1_offset - 1>>
            pred == ToFloat(pred_buffer[near[1]] + pred_buffer[near[2]]
                            + pred_buffer[near[3]] - pred_buffer[near[4]]
                            - pred_buffer[near[5]] - pred_buffer[near[6]]
                            + pred_buffer[near[7]])
            q == Quantize(staged.vals[n], pred, realPrecision,
                          exe_params.intvCapacity - 2, exe_params.intvRadius)
        IN /\ \A t \in 1 .. 7 :
                LET x == near[t] \div strip_dim0_offset
                    y == (near[t] \div strip_dim1_offset) % pred_buffer_block_size
                    z == near[t] % pred_buffer_block_size
                    m == ((x - 1) * block_size + (y - 1)) * block_size + (z - 1)
                IN \/ x = 0 \/ y = 0 \/ z = 0
                   \/ m < n /\ CellOf(m) = near[t] /\ pred_buffer[near[t]] = LastRecon[m]
           /\ pred_buffer[c] = LastRecon[n]
           /\ \/ use_mean = 1 /\ Abs(staged.vals[n] - mean) <= realPrecision
              \/ LastType[n] = q.type /\ LastRecon[n] = q.recon

\* a predicted element of a Lorenzo block whose predecessor on the fastest
\* axis was reconstructed to a value other than its staged one
C21_Witness ==
  /\ ValidCall /\ Quantized /\ indicator[staged.block] = 1
  /\ \E n \in Elements :
        /\ LocalK(n) >= 1
        /\ LastRecon[n - 1] # staged.vals[n - 1]
        /\ LastType[n] >= 2
        /\ ~(use_mean = 1 /\ Abs(staged.vals[n] - mean) <= realPrecision)

\* C22: from the start of the selection pass to the end of the quantization
\* pass, in both modes, every cell of the staging buffer with index 0 on some
\* axis holds 0.
C22_HaloZero ==
  (ValidCall /\ (pc \in {"select", "quant"} \/ Selected \/ Quantized)) =>
     \A x, y, z \in 0 .. block_size :
        (x = 0 \/ y = 0 \/ z = 0) => pred_buffer[Cell(x, y, z)] = 0

\* the second block quantized: a non-zero value next to the halo, in a buffer
\* that held the different reconstructions of the first block before
C22_Witness ==
  /\ ValidCall /\ Quantized /\ staged.block = 1
  /\ pred_buffer[Cell(1, 1, 1)] # 0
  /\ LastRecon # recon[1]

\* C23 as stated: in mean mode, symbol 1 only for a mean-substituted element
\* and symbol 0 only for an escape, in every block.
C23_AsStated ==
  (ValidCall /\ Quantized /\ use_mean = 1
     /\ exe_params.intvRadius = exe_params.intvCapacity \div 2) =>
     \A n \in Elements :
        /\ LastType[n] = 1 =>
              Abs(staged.vals[n] - mean) <= realPrecision /\ LastRecon[n] = mean
        /\ LastType[n] = 0 => LastRecon[n] = staged.vals[n]

\* C23: in mean mode (with intvRadius = intvCapacity / 2), symbol 0 marks
\* only escapes, in every block; in a Lorenzo block, symbol 1 marks exactly
\* the mean-substituted elements and a predicted element has a symbol in
\* [2, intvCapacity - 2]; in a regression block, which quantizes against the
\* whole capacity, a predicted element has a symbol in [1, intvCapacity - 1]
\* and symbol 1 is the code of a residual like any other.
C23_ReservedCodes ==
  (ValidCall /\ Quantized /\ use_mean = 1
     /\ exe_params.intvRadius = exe_params.intvCapacity \div 2) =>
     \A n \in Elements :
        /\ LastType[n] = 0 => LastRecon[n] = staged.vals[n]
        /\ LastType[n] \in 0 .. (exe_params.intvCapacity - 1)
        /\ indicator[staged.block] = 1 =>
              /\ LastType[n] = 1 <=> Abs(staged.vals[n] - mean) <= realPrecision
              /\ LastType[n] = 1 => LastRecon[n] = mean
              /\ LastType[n] <= exe_params.intvCapacity - 2
        /\ (indicator[staged.block] = 0 /\ LastType[n] # 0) =>
              LastRecon[n]
                = ToFloat(RegressionAt(reg_params, RegRank(staged.block),
                                       LocalI(n), LocalJ(n), LocalK(n))
                          + 2 * (LastType[n] - exe_params.intvRadius) * realPrecision)

\* a regression block in mean mode with symbol 1 for an element away from
\* the mean, reconstructed by prediction
C23_Witness ==
  /\ ValidCall /\ Quantized /\ use_mean = 1
  /\ exe_params.intvRadius = exe_params.intvCapacity \div 2
  /\ indicator[staged.block] = 0
  /\ \E n \in Elements :
        /\ LastType[n] = 1
        /\ Abs(staged.vals[n] - mean) > realPrecision
        /\ LastRecon[n] \notin {mean, staged.vals[n]}

\* C24: every load of a staging copy, in every pass of both modes, is at a
\* flat index below r1*r2*r3 and at coordinates within [0, r1-1], [0, r2-1]
\* and [0, r3-1].
C24_ReadsInside ==
  (ValidCall /\ staged.pass # "none") =>
     /\ ~ReadsOutside(staged.block, staged.slack)
     /\ \A t \in 0 .. (block_size - 1) :
           /\ AxisSteps(BlockI(staged.block) * block_size, r1, staged.slack)[t] <= r1 - 1
           /\ AxisSteps(BlockJ(staged.block) * block_size, r2, staged.slack)[t] <= r2 - 1
           /\ AxisSteps(BlockK(staged.block) * block_size, r3, staged.slack)[t] <= r3 - 1

\* C25: after a call of sz_opencl_init, a return of SZ_SCES leaves *state an
\* allocated object with error code 0 and a null message; a cl::Error makes
\* it return SZ_NSCS with *state an allocated object carrying the error's
\* code and message; any other failure makes it return SZ_NSCS with *state
\* null and the object of the call freed, and nothing undefined happens;
\* sz_opencl_error_code and sz_opencl_error_msg on a null handle return -1
\* and the fixed message; sz_opencl_release frees the object and leaves
\* *state as it was.
C25_Handle ==
  LET c == probe.call
      p == probe.state
      allocated(o) == o \in DOMAIN probe.heap /\ probe.heap[o].live
  IN /\ c.op = "sz_opencl_init" =>
          /\ ~probe.undefined
          /\ probe.ret \in {"SZ_SCES", "SZ_NSCS"}
          /\ probe.ret = "SZ_SCES" <=> c.kind = "none"
          /\ c.kind = "none" =>
                allocated(p) /\ probe.heap[p].code = 0 /\ probe.heap[p].str = "nullptr"
          /\ c.kind = "cl" =>
                allocated(p) /\ probe.heap[p].code = c.code /\ probe.heap[p].str = c.str
          /\ c.kind \in {"other", "alloc"} => p = 0 /\ ~allocated(c.obj)
     /\ (c.op = "sz_opencl_error_code" /\ c.arg = 0) => c.code = -1
     /\ (c.op = "sz_opencl_error_msg" /\ c.arg = 0) =>
          c.str = "sz opencl allocation failed"
     /\ c.op = "sz_opencl_release" => p = c.arg /\ ~allocated(p)

====
